---------------------------- MODULE Spec2Model ----------------------------
(***************************************************************************)
(* Block-device statistics collector of pgscv                              *)
(* (internal/collector/diskstats_linux.go).                                *)
(*                                                                         *)
(* Text is modelled as sequences of one-character strings, so that         *)
(* tokenising, number parsing and regular-expression matching are          *)
(* computed and not assumed.  Numbers are integers: the counters file      *)
(* holds unsigned decimal integers, and the token alphabet of the model    *)
(* (decimal digits, a sign, and "?") keeps strconv.ParseFloat inside the   *)
(* integer syntax.                                                         *)
(***************************************************************************)
EXTENDS Integers, Sequences, FiniteSets, TLC

VARIABLES
    ignore,     \* c.ignoredDevicesPattern: the name of a pattern of Patterns
    source,     \* /proc/diskstats as the scanner yields it: a sequence of lines
    sysfs,      \* what filepath.Glob and the attribute files give this scrape
    pc,         \* position of Update: "idle", "counters", "returned"
    parsed,     \* what getDiskstats returned: [stats, nilmap, err]
    pending,    \* keys of stats the range loop has not visited yet
    ch,         \* the samples sent to the channel by this Update, in order
    storages,   \* what getStorageProperties returned: [list, err]
    ret         \* Update's return value: "none" (running), "nil", "error"

vars == <<ignore, source, sysfs, pc, parsed, pending, ch, storages, ret>>

----------------------------------------------------------------------------
(* Characters *)

Digit == {"0", "1", "2", "3", "4", "5", "6", "7", "8", "9"}

Lower == {"a", "b", "c", "d", "e", "f", "g", "h", "i", "j", "k", "l", "m",
          "n", "o", "p", "q", "r", "s", "t", "u", "v", "w", "x", "y", "z"}

Space == {" ", "\t"}

DigitValue(c) ==
    CASE c = "0" -> 0 [] c = "1" -> 1 [] c = "2" -> 2 [] c = "3" -> 3
      [] c = "4" -> 4 [] c = "5" -> 5 [] c = "6" -> 6 [] c = "7" -> 7
      [] c = "8" -> 8 [] c = "9" -> 9

DigitChar(n) ==
    CASE n = 0 -> "0" [] n = 1 -> "1" [] n = 2 -> "2" [] n = 3 -> "3"
      [] n = 4 -> "4" [] n = 5 -> "5" [] n = 6 -> "6" [] n = 7 -> "7"
      [] n = 8 -> "8" [] n = 9 -> "9"

RECURSIVE Flatten(_)
Flatten(ss) == IF ss = <<>> THEN <<>> ELSE Head(ss) \o Flatten(Tail(ss))

----------------------------------------------------------------------------
(* Regular expressions: the syntax trees of the two patterns of the file   *)
(* and a backtracking matcher.  Match(re, s, i) is the sequence of         *)
(* positions at which a match of re starting after i characters of s can   *)
(* end, in the order of preference of Go's regexp (leftmost-first: the     *)
(* earlier alternative, the longer repetition).                            *)

Lit(c)    == [op |-> "lit", set |-> {c}]
Class(cs) == [op |-> "lit", set |-> cs]
Bol       == [op |-> "bol"]
Eol       == [op |-> "eol"]
Cat(rs)   == [op |-> "cat", args |-> rs]
Alt(rs)   == [op |-> "alt", args |-> rs]
Plus(r)   == [op |-> "plus", arg |-> r]
Str(s)    == Cat([k \in 1..Len(s) |-> Lit(s[k])])

RECURSIVE Match(_, _, _), MatchCat(_, _, _, _), MatchAlt(_, _, _, _), MatchPlus(_, _, _)

Match(re, s, i) ==
    CASE re.op = "lit"  -> IF i < Len(s) /\ s[i + 1] \in re.set THEN <<i + 1>> ELSE <<>>
      [] re.op = "bol"  -> IF i = 0 THEN <<i>> ELSE <<>>
      [] re.op = "eol"  -> IF i = Len(s) THEN <<i>> ELSE <<>>
      [] re.op = "cat"  -> MatchCat(re.args, 1, s, i)
      [] re.op = "alt"  -> MatchAlt(re.args, 1, s, i)
      [] re.op = "plus" -> MatchPlus(re.arg, s, i)

MatchCat(rs, k, s, i) ==
    IF k > Len(rs) THEN <<i>>
    ELSE LET ends == Match(rs[k], s, i)
         IN  Flatten([n \in 1..Len(ends) |-> MatchCat(rs, k + 1, s, ends[n])])

MatchAlt(rs, k, s, i) ==
    IF k > Len(rs) THEN <<>>
    ELSE Match(rs[k], s, i) \o MatchAlt(rs, k + 1, s, i)

MatchPlus(r, s, i) ==
    LET ends == Match(r, s, i)
    IN  Flatten([n \in 1..Len(ends) |->
                    (IF ends[n] > i THEN MatchPlus(r, s, ends[n]) ELSE <<>>)
                    \o <<ends[n]>>])

\* regexp.MatchString: is there a match starting anywhere in s
MatchString(re, s) == \E i \in 0..Len(s) : Match(re, s, i) # <<>>

\* regexp.Find: the preferred match at the leftmost position that has one;
\* [found |-> FALSE] stands for the nil slice
RECURSIVE FindFrom(_, _, _)
FindFrom(re, s, i) ==
    IF i > Len(s) THEN [found |-> FALSE, text |-> <<>>]
    ELSE LET ends == Match(re, s, i)
         IN  IF ends # <<>>
             THEN [found |-> TRUE, text |-> SubSeq(s, i + 1, ends[1])]
             ELSE FindFrom(re, s, i + 1)

Find(re, s) == FindFrom(re, s, 0)

\* bytes.Trim(s, cutset): s without its leading and trailing cutset characters
RECURSIVE TrimLeft(_, _), TrimRight(_, _)
TrimLeft(s, cutset) ==
    IF s # <<>> /\ Head(s) \in cutset THEN TrimLeft(Tail(s), cutset) ELSE s

TrimRight(s, cutset) ==
    IF s # <<>> /\ s[Len(s)] \in cutset
    THEN TrimRight(SubSeq(s, 1, Len(s) - 1), cutset) ELSE s

Trim(s, cutset) == TrimRight(TrimLeft(s, cutset), cutset)

----------------------------------------------------------------------------
(* Constants of the file *)

diskSectorSize == 512

\* "^(ram|loop|fd|(h|s|v|xv)d[a-z]|nvme\\d+n\\d+p)\\d+$"
ignoredDevicesPattern ==
    Cat(<<Bol,
          Alt(<<Str(<<"r", "a", "m">>),
                Str(<<"l", "o", "o", "p">>),
                Str(<<"f", "d">>),
                Cat(<<Alt(<<Str(<<"h">>), Str(<<"s">>), Str(<<"v">>), Str(<<"x", "v">>)>>),
                      Lit("d"), Class(Lower)>>),
                Cat(<<Str(<<"n", "v", "m", "e">>), Plus(Class(Digit)), Lit("n"),
                      Plus(Class(Digit)), Lit("p")>>)>>),
          Plus(Class(Digit)),
          Eol>>)

\* `[[a-z-]+]|none`
schedulerPattern ==
    Alt(<<Cat(<<Plus(Class({"["} \cup Lower \cup {"-"})), Lit("]")>>),
          Str(<<"n", "o", "n", "e">>)>>)


----------------------------------------------------------------------------
(* Line Parser *)

\* strings.Fields: the maximal runs of non-space characters of the line
RECURSIVE FieldsFrom(_, _, _, _)
FieldsFrom(line, i, cur, acc) ==
    IF i > Len(line)
    THEN IF cur = <<>> THEN acc ELSE Append(acc, cur)
    ELSE IF line[i] \in Space
         THEN FieldsFrom(line, i + 1, <<>>, IF cur = <<>> THEN acc ELSE Append(acc, cur))
         ELSE FieldsFrom(line, i + 1, Append(cur, line[i]), acc)

Fields(line) == FieldsFrom(line, 1, <<>>, <<>>)

\* strconv.ParseFloat(tok, 64) on the token alphabet of the model: an
\* optional sign and one or more decimal digits give the number, anything
\* else is a syntax error (value 0 with err set)
RECURSIVE DecimalValue(_, _)
DecimalValue(ds, acc) ==
    IF ds = <<>> THEN acc
    ELSE DecimalValue(Tail(ds), 10 * acc + DigitValue(Head(ds)))

ParseFloat(tok) ==
    LET signed == tok # <<>> /\ Head(tok) \in {"+", "-"}
        ds     == IF signed THEN Tail(tok) ELSE tok
    IN  IF ds # <<>> /\ \A k \in 1..Len(ds) : ds[k] \in Digit
        THEN [value |-> IF signed /\ Head(tok) = "-"
                        THEN 0 - DecimalValue(ds, 0) ELSE DecimalValue(ds, 0),
              err   |-> FALSE]
        ELSE [value |-> 0, err |-> TRUE]

\* the compiled pattern a pattern name stands for: "default" is the one
\* NewDiskstatsCollector compiles, "sd" an unanchored pattern a caller of
\* parseDiskstats or getStorageProperties may pass; "nil" is the nil pointer
Pattern(name) ==
    CASE name = "default" -> ignoredDevicesPattern
      [] name = "sd"      -> Str(<<"s", "d">>)

\* Ignored with the match negated
IgnoredNegated(ign, device) == ign # "nil" /\ ~MatchString(Pattern(ign), device)

\* ignore != nil && ignore.MatchString(device)
Ignored(ign, device) == ign # "nil" /\ MatchString(Pattern(ign), device)

\* ParseStat leaving the loop at the first token that does not parse
ParseStatAbort(values) ==
    [i \in 1..(Len(values) - 3) |->
        IF \E j \in 1..i : ParseFloat(values[j + 3]).err THEN 0
        ELSE ParseFloat(values[i + 3]).value]

\* lines 182-190: the float64 slice of a line's tokens after the first three;
\* make() zeroes it and a token that does not parse leaves its zero
ParseStat(values) ==
    [i \in 1..(Len(values) - 3) |->
        LET f == ParseFloat(values[i + 3])
        IN  IF f.err THEN 0 ELSE f.value]

\* ValidWidth with the test the error message suggests ("too few columns")
ValidWidthAtLeast(n) == n >= 14

\* line 171: the accepted numbers of columns
ValidWidth(n) == n = 14 \/ n = 18 \/ n = 20

\* parseDiskstats, its scan loop from line k on with the map built so far.
\* The result is [stats, nilmap, err]: nilmap says the returned map is nil.
RECURSIVE ParseLoop(_, _, _, _)
ParseLoop(lines, k, stats, ign) ==
    IF k > Len(lines)
    THEN [stats |-> stats, nilmap |-> FALSE, err |-> FALSE]
    ELSE LET values == Fields(lines[k])
         IN  IF ~ValidWidth(Len(values))
             THEN [stats |-> <<>>, nilmap |-> TRUE, err |-> TRUE]
             ELSE LET device == values[3]
                  IN  IF Ignored(ign, device)
                      THEN ParseLoop(lines, k + 1, stats, ign)
                      ELSE ParseLoop(lines, k + 1,
                                     (device :> ParseStat(values)) @@ stats, ign)

parseDiskstats(lines, ign) == ParseLoop(lines, 1, <<>>, ign)

\* getDiskstats: the file opens (the model's source is always readable)
getDiskstats(lines, ign) == parseDiskstats(lines, ign)

----------------------------------------------------------------------------
(* Sysfs Property Reader *)

\* ioutil.ReadFile: a file is [ok, content]; ok = FALSE is a read error
\* (the file is missing or unreadable)
NoFile == [ok |-> FALSE, content |-> <<>>]
File(text) == [ok |-> TRUE, content |-> text]

\* bufio.Reader.ReadLine on the content: io.EOF when nothing is left to
\* read, otherwise the first line without its end-of-line bytes
RECURSIVE UpToNewline(_)
UpToNewline(text) ==
    IF text = <<>> \/ Head(text) = "\n" THEN <<>>
    ELSE <<Head(text)>> \o UpToNewline(Tail(text))

ReadLine(content) ==
    IF content = <<>> THEN [line |-> <<>>, err |-> TRUE]
    ELSE LET l == UpToNewline(content)
         IN  [line |-> IF l # <<>> /\ l[Len(l)] = "\r"
                       THEN SubSeq(l, 1, Len(l) - 1) ELSE l,
              err  |-> FALSE]

\* getDeviceRotational on the device's queue/rotational file
getDeviceRotational(file) ==
    IF ~file.ok THEN [value |-> <<>>, err |-> TRUE]
    ELSE LET r == ReadLine(file.content)
         IN  IF r.err THEN [value |-> <<>>, err |-> TRUE]
             ELSE IF r.line = <<"0">> \/ r.line = <<"1">>
                  THEN [value |-> r.line, err |-> FALSE]
                  ELSE [value |-> <<>>, err |-> TRUE]

\* getDeviceScheduler on the device's queue/scheduler file
getDeviceScheduler(file) ==
    IF ~file.ok THEN [value |-> <<>>, err |-> TRUE]
    ELSE LET r == ReadLine(file.content)
         IN  IF r.err THEN [value |-> <<>>, err |-> TRUE]
             ELSE LET sched == Find(schedulerPattern, r.line)
                  IN  IF sched.found
                      THEN [value |-> Trim(sched.text, {"[", "]"}), err |-> FALSE]
                      ELSE [value |-> <<>>, err |-> TRUE]

\* lines 215-216: the last of the parts of devpath between "/"
RECURSIVE LastPart(_)
LastPart(devpath) ==
    IF devpath = <<>> \/ devpath[Len(devpath)] = "/" THEN <<>>
    ELSE Append(LastPart(SubSeq(devpath, 1, Len(devpath) - 1)), devpath[Len(devpath)])

\* StorageLoop returning what it has at the first device that fails
RECURSIVE StorageLoopAbort(_, _, _, _)
StorageLoopAbort(dirs, k, acc, ign) ==
    IF k > Len(dirs) THEN acc
    ELSE LET device     == LastPart(dirs[k].devpath)
             rotational == getDeviceRotational(dirs[k].rotational)
             scheduler  == getDeviceScheduler(dirs[k].scheduler)
         IN  IF Ignored(ign, device) THEN StorageLoopAbort(dirs, k + 1, acc, ign)
             ELSE IF rotational.err \/ scheduler.err THEN acc
             ELSE StorageLoopAbort(dirs, k + 1,
                                   Append(acc, [device     |-> device,
                                                scheduler  |-> scheduler.value,
                                                rotational |-> rotational.value]),
                                   ign)

\* getStorageProperties, its loop over the glob's matches from match k on.
\* A match is [devpath, rotational, scheduler]: the path and its two files.
RECURSIVE StorageLoop(_, _, _, _)
StorageLoop(dirs, k, acc, ign) ==
    IF k > Len(dirs) THEN acc
    ELSE LET device     == LastPart(dirs[k].devpath)
             rotational == getDeviceRotational(dirs[k].rotational)
             scheduler  == getDeviceScheduler(dirs[k].scheduler)
         IN  IF Ignored(ign, device) THEN StorageLoop(dirs, k + 1, acc, ign)
             ELSE IF rotational.err THEN StorageLoop(dirs, k + 1, acc, ign)
             ELSE IF scheduler.err THEN StorageLoop(dirs, k + 1, acc, ign)
             ELSE StorageLoop(dirs, k + 1,
                              Append(acc, [device     |-> device,
                                           scheduler  |-> scheduler.value,
                                           rotational |-> rotational.value]),
                              ign)

\* sys is [globErr, dirs]: whether filepath.Glob returned an error (it does
\* for a malformed path only), and its matches.  The result is
\* [list, nillist, err].
getStorageProperties(sys, ign) ==
    IF sys.globErr THEN [list |-> <<>>, nillist |-> TRUE, err |-> TRUE]
    ELSE [list |-> StorageLoop(sys.dirs, 1, <<>>, ign), nillist |-> FALSE, err |-> FALSE]

----------------------------------------------------------------------------
(* Metric Descriptor Set: the typedDesc fields NewDiskstatsCollector sets. *)
(* A factor is the fraction num/den; 0/1 is the zero value of a typedDesc  *)
(* whose factor is not set.                                                *)

NoFactor == [num |-> 0, den |-> 1]
Milli    == [num |-> 1, den |-> 1000]

diskLabelNames == <<"device", "type">>

Descs ==
    [completed      |-> [name |-> "node_disk_completed_total", valueType |-> "counter",
                         labelNames |-> diskLabelNames, factor |-> NoFactor],
     merged         |-> [name |-> "node_disk_merged_total", valueType |-> "counter",
                         labelNames |-> diskLabelNames, factor |-> NoFactor],
     bytes          |-> [name |-> "node_disk_bytes_total", valueType |-> "counter",
                         labelNames |-> diskLabelNames,
                         factor |-> [num |-> diskSectorSize, den |-> 1]],
     times          |-> [name |-> "node_disk_time_seconds_total", valueType |-> "counter",
                         labelNames |-> diskLabelNames, factor |-> Milli],
     ionow          |-> [name |-> "node_disk_io_now", valueType |-> "gauge",
                         labelNames |-> <<"device">>, factor |-> NoFactor],
     iotime         |-> [name |-> "node_disk_io_time_seconds_total", valueType |-> "counter",
                         labelNames |-> <<"device">>, factor |-> Milli],
     iotimeweighted |-> [name |-> "node_disk_io_time_weighted_seconds_total",
                         valueType |-> "counter",
                         labelNames |-> <<"device">>, factor |-> Milli],
     storages       |-> [name |-> "node_system_storage_info", valueType |-> "gauge",
                         labelNames |-> <<"device", "rotational", "scheduler">>,
                         factor |-> NoFactor]]

\* the collector with io_time_seconds_total typed as its neighbour io_now
CollectorIoTimeGauge == [Descs EXCEPT !.iotime.valueType = "gauge"]

\* the collector NewDiskstatsCollector returns
NewDiskstatsCollector == Descs

\* ch <- desc.mustNewConstMetric(value, labelValues...): the sample sent,
\* recorded as the descriptor and the arguments of the call
Sample(desc, value, labelValues) ==
    [name |-> desc.name, valueType |-> desc.valueType, labelNames |-> desc.labelNames,
     factor |-> desc.factor, value |-> value, labelValues |-> labelValues]

----------------------------------------------------------------------------
(* Collector Orchestrator *)

\* lines 108-120: the samples sent for a vector of at least 11 entries
\* (stat[i] of the code is stat[i + 1] here)
BaseSamples(c, dev, stat) ==
    IF Len(stat) >= 11
    THEN << Sample(c.completed, stat[1], <<dev, "reads">>),
            Sample(c.merged, stat[2], <<dev, "reads">>),
            Sample(c.bytes, stat[3], <<dev, "reads">>),
            Sample(c.times, stat[4], <<dev, "reads">>),
            Sample(c.completed, stat[5], <<dev, "writes">>),
            Sample(c.merged, stat[6], <<dev, "writes">>),
            Sample(c.bytes, stat[7], <<dev, "writes">>),
            Sample(c.times, stat[8], <<dev, "writes">>),
            Sample(c.ionow, stat[9], <<dev>>),
            Sample(c.iotime, stat[10], <<dev>>),
            Sample(c.iotimeweighted, stat[11], <<dev>>) >>
    ELSE <<>>

\* lines 122-128: for kernels 4.18+
DiscardSamples(c, dev, stat) ==
    IF Len(stat) >= 15
    THEN << Sample(c.completed, stat[12], <<dev, "discards">>),
            Sample(c.merged, stat[13], <<dev, "discards">>),
            Sample(c.bytes, stat[14], <<dev, "discards">>),
            Sample(c.times, stat[15], <<dev, "discards">>) >>
    ELSE <<>>

\* FlushSamples without its second send
FlushSamplesOne(c, dev, stat) ==
    IF Len(stat) >= 17
    THEN << Sample(c.completed, stat[16], <<dev, "flush">>) >>
    ELSE <<>>

\* lines 130-134: for kernels 5.5+
FlushSamples(c, dev, stat) ==
    IF Len(stat) >= 17
    THEN << Sample(c.completed, stat[16], <<dev, "flush">>),
            Sample(c.times, stat[17], <<dev, "flush">>) >>
    ELSE <<>>

\* DeviceSamples with the two later blocks in the other order
DeviceSamplesFlushFirst(c, dev, stat) ==
    BaseSamples(c, dev, stat) \o FlushSamples(c, dev, stat) \o DiscardSamples(c, dev, stat)

\* lines 108-134: the samples one iteration of the range loop sends for
\* device dev with vector stat
DeviceSamples(c, dev, stat) ==
    BaseSamples(c, dev, stat) \o DiscardSamples(c, dev, stat) \o FlushSamples(c, dev, stat)

\* lines 142-144: the samples sent for the storages list
StorageSamples(c, list) ==
    [k \in 1..Len(list) |->
        Sample(c.storages, 1, <<list[k].device, list[k].rotational, list[k].scheduler>>)]

NoParse   == [stats |-> <<>>, nilmap |-> TRUE, err |-> FALSE]
NoStorage == [list |-> <<>>, nillist |-> TRUE, err |-> FALSE]

\* Update, lines 102-105: read and parse the counters; an error returns at once
UpdateBegin ==
    /\ pc = "idle"
    /\ LET r == getDiskstats(source, ignore)
       IN  /\ parsed' = r
           /\ IF r.err
              THEN /\ ret' = "error"
                   /\ pc' = "returned"
                   /\ pending' = {}
              ELSE /\ ret' = "none"
                   /\ pc' = "counters"
                   /\ pending' = DOMAIN r.stats
    /\ UNCHANGED <<ignore, source, sysfs, ch, storages>>

\* Update, lines 107-135: one iteration of the range over the map, which
\* visits the keys in an order the language leaves open
EmitDevice(dev) ==
    /\ pc = "counters"
    /\ dev \in pending
    /\ ch' = ch \o DeviceSamples(NewDiskstatsCollector, dev, parsed.stats[dev])
    /\ pending' = pending \ {dev}
    /\ UNCHANGED <<ignore, source, sysfs, pc, parsed, storages, ret>>

\* CollectStorages returning the error of getStorageProperties
CollectStoragesFatal ==
    /\ pc = "counters"
    /\ pending = {}
    /\ LET r == getStorageProperties(sysfs, ignore)
       IN  /\ storages' = r
           /\ ch' = IF r.err THEN ch
                    ELSE ch \o StorageSamples(NewDiskstatsCollector, r.list)
           /\ ret' = IF r.err THEN "error" ELSE "nil"
    /\ pc' = "returned"
    /\ UNCHANGED <<ignore, source, sysfs, parsed, pending>>

\* Update, lines 137-147: the range is over; collect the storage properties,
\* send their samples unless the collection failed, and return nil
CollectStorages ==
    /\ pc = "counters"
    /\ pending = {}
    /\ LET r == getStorageProperties(sysfs, ignore)
       IN  /\ storages' = r
           /\ ch' = IF r.err THEN ch
                    ELSE ch \o StorageSamples(NewDiskstatsCollector, r.list)
    /\ ret' = "nil"
    /\ pc' = "returned"
    /\ UNCHANGED <<ignore, source, sysfs, parsed, pending>>

\* the next scrape: nothing of a scrape outlives it but the collector
NextScrape ==
    /\ pc = "returned"
    /\ pc' = "idle"
    /\ parsed' = NoParse
    /\ pending' = {}
    /\ ch' = <<>>
    /\ storages' = NoStorage
    /\ ret' = "none"
    /\ UNCHANGED <<ignore, source, sysfs>>

Next ==
    \/ UpdateBegin
    \/ \E dev \in pending : EmitDevice(dev)
    \/ CollectStorages
    \/ NextScrape

----------------------------------------------------------------------------
(* The inputs of a scrape: the counters source and the attribute tree.     *)

MaxLines == 2       \* lines of the counters source
MaxDirs  == 2       \* matches of the glob

sda     == <<"s", "d", "a">>
sda1    == <<"s", "d", "a", "1">>
loop0   == <<"l", "o", "o", "p", "0">>
nvme0n1 == <<"n", "v", "m", "e", "0", "n", "1">>

\* the names in the order filepath.Glob lists them (sorted)
DevOrder == <<loop0, nvme0n1, sda, sda1>>
Devices  == {DevOrder[k] : k \in 1..Len(DevOrder)}

Patterns == {"nil", "default", "sd"}

\* the decimal numeral of a natural number
RECURSIVE DecimalToken(_)
DecimalToken(n) ==
    IF n < 10 THEN <<DigitChar(n)>>
    ELSE Append(DecimalToken(n \div 10), DigitChar(n % 10))

\* a token no number syntax accepts
BadToken == <<"1", "?">>

\* the value the counter at position i (from 0) of a generated line holds
CounterAt(i) == 7 + 5 * i

\* a line of the kernel's format: "   8       0 <dev> <n counters>", the
\* counter at position bad (if any) replaced by BadToken
RECURSIVE Join(_)
Join(tokens) ==
    IF tokens = <<>> THEN <<>>
    ELSE <<" ">> \o Head(tokens) \o Join(Tail(tokens))

MkLine(dev, n, bad) ==
    <<" ">> \o Join(<<<<"8">>, <<"0">>, dev>>
                    \o [i \in 1..n |-> IF i - 1 = bad THEN BadToken
                                       ELSE DecimalToken(CounterAt(i - 1))])

CleanLines   == {MkLine(sda, n, -1) : n \in {11, 15, 17}}
                \cup {MkLine(d, 11, -1) : d \in {nvme0n1, loop0, sda1}}
CorruptLines == {MkLine(sda, 11, 10), MkLine(sda, 15, 7), MkLine(sda, 17, 0)}
BadLines     == {<<>>, MkLine(loop0, 10, -1), MkLine(sda, 18, -1)}
SourceLines  == CleanLines \cup CorruptLines \cup BadLines

Sources == UNION {[1..k -> SourceLines] : k \in 0..MaxLines}

FewSources == {<<MkLine(sda, 17, -1), MkLine(nvme0n1, 11, -1)>>,
               <<MkLine(sda, 11, -1), MkLine(loop0, 11, -1)>>}

SysBlock == <<"/", "s", "y", "s", "/", "b", "l", "o", "c", "k", "/">>

RotFiles   == {NoFile, File(<<>>), File(<<"0", "\n">>), File(<<"1">>),
               File(<<"2", "\n">>)}
SchedFiles == {NoFile,
               File(<<"n", "o", "o", "p", " ", "[", "m", "q", "-", "d", "e", "a", "d", "l", "i", "n", "e", "]", " ", "k", "y", "b", "e", "r", "\n">>),
               File(<<"n", "o", "n", "e", "\n">>),
               File(<<"n", "o", "o", "p", " ", "d", "e", "a", "d", "l", "i", "n", "e", "\n">>)}

GoodRot   == File(<<"1", "\n">>)
GoodSched == File(<<"n", "o", "o", "p", " ", "d", "e", "a", "d", "l", "i", "n", "e", " ", "[", "c", "f", "q", "]", " ", "\n">>)

Dir(dev, rot, sched) == [devpath |-> SysBlock \o dev, rotational |-> rot, scheduler |-> sched]

\* the directories a device can show: every combination of files for sda,
\* a few for the other names
DirsOf(dev) ==
    IF dev = sda THEN {Dir(dev, r, s) : r \in RotFiles, s \in SchedFiles}
    ELSE IF dev = nvme0n1
    THEN {Dir(dev, GoodRot, GoodSched), Dir(dev, NoFile, GoodSched),
          Dir(dev, File(<<"0", "\n">>), File(<<"n", "o", "n", "e", "\n">>)),
          Dir(dev, GoodRot, File(<<"k", "y", "b", "e", "r", "\n">>))}
    ELSE {Dir(dev, GoodRot, GoodSched), Dir(dev, File(<<"2">>), GoodSched)}

\* the glob's matches: at most MaxDirs of the names, in the glob's order
Listings ==
    UNION {LET order == SelectSeq(DevOrder, LAMBDA d : d \in S)
           IN  {f \in [1..Len(order) -> UNION {DirsOf(d) : d \in S}] :
                    \A k \in 1..Len(order) : f[k] \in DirsOf(order[k])}
           : S \in {X \in SUBSET Devices : Cardinality(X) <= MaxDirs}}

StdSysfs == [globErr |-> FALSE,
             dirs |-> <<Dir(loop0, GoodRot, GoodSched), Dir(sda, GoodRot, GoodSched)>>]

InitScrape ==
    /\ pc = "idle"
    /\ parsed = NoParse
    /\ pending = {}
    /\ ch = <<>>
    /\ storages = NoStorage
    /\ ret = "none"

\* scrapes that vary the counters source
InitCounters ==
    /\ ignore \in Patterns
    /\ source \in Sources
    /\ sysfs = StdSysfs
    /\ InitScrape

\* scrapes that vary the attribute tree
InitProperties ==
    /\ ignore \in Patterns
    /\ source \in FewSources
    /\ sysfs \in [globErr : {FALSE}, dirs : Listings] \cup {[globErr |-> TRUE, dirs |-> <<>>]}
    /\ InitScrape

Init == InitCounters \/ InitProperties

Spec == Init /\ [][Next]_vars

----------------------------------------------------------------------------
(* Vocabulary of the properties *)

\* the number of tokens of a line: the places where a token starts
TokenCount(line) ==
    Cardinality({i \in 1..Len(line) :
                    line[i] \notin Space /\ (i = 1 \/ line[i - 1] \in Space)})

AcceptedCount(line) == TokenCount(line) \in {14, 18, 20}

\* the third token of a line
DeviceOf(line) == Fields(line)[3]

\* the device name matches the collector's (non-nil) pattern
Matches(device) == MatchString(Pattern(ignore), device)

Excluded(device) == ignore # "nil" /\ Matches(device)

HasBadLine == \E k \in 1..Len(source) : ~AcceptedCount(source[k])

\* the samples of ch that are storage-property samples, counter samples of a
\* device, and counter samples of a device with a type label
IsStorageSample(m) == m.name = "node_system_storage_info"
IsCounterSample(m) == ~IsStorageSample(m)
SamplesOf(dev)     == {k \in 1..Len(ch) : IsCounterSample(ch[k]) /\ ch[k].labelValues[1] = dev}
TypedOf(dev, type) == {k \in SamplesOf(dev) :
                          Len(ch[k].labelValues) = 2 /\ ch[k].labelValues[2] = type}
DeviceLevelOf(dev) == {k \in SamplesOf(dev) : Len(ch[k].labelValues) = 1}

----------------------------------------------------------------------------
(* C1: a line whose token count is not 14, 18 or 20 - anywhere in the      *)
(* source, blank or naming an excluded device - makes parseDiskstats       *)
(* return an error and no map, and Update return an error with no sample   *)
(* sent.                                                                   *)
C1_BadWidthFailsScrape ==
    /\ (pc # "idle" /\ HasBadLine) =>
           /\ parsed.err /\ parsed.nilmap /\ parsed.stats = <<>>
           /\ pc = "returned" /\ ret = "error"
           /\ ch = <<>>
    /\ (pc # "idle" /\ parsed.err) => (ret = "error" /\ ch = <<>> /\ pc = "returned")

\* a valid line of a kept device, then a bad line naming an excluded device
C1_Witness ==
    /\ pc = "returned" /\ ret = "error"
    /\ Len(source) = 2
    /\ AcceptedCount(source[1]) /\ ~Excluded(DeviceOf(source[1]))
    /\ TokenCount(source[2]) = 13 /\ Excluded(Fields(source[2])[3])

----------------------------------------------------------------------------
\* the tokens of each line of the source, and the device each line names
SourceFields  == [k \in 1..Len(source) |-> Fields(source[k])]
SourceDevices == [k \in 1..Len(source) |-> Fields(source[k])[3]]

\* the vector the claim describes for a line of tokens v: one entry per token
\* after the third, its number if it is one and 0 if not
VectorOf(v) ==
    [i \in 1..(Len(v) - 3) |->
        LET f == ParseFloat(v[i + 3]) IN IF f.err THEN 0 ELSE f.value]

AllAccepted == \A k \in 1..Len(source) : AcceptedCount(source[k])

\* getDiskstats has just returned: with an error, or with the map none of
\* whose keys the range loop has visited yet
ParseReturned ==
    \/ pc = "returned" /\ parsed.err
    \/ pc = "counters" /\ ~parsed.err /\ pending = DOMAIN parsed.stats

(* C2 as stated: when every line has 14, 18 or 20 tokens the parse         *)
(* succeeds and the map holds, for each non-excluded line, the line's      *)
(* vector under the line's device name.                                    *)
C2_EveryLineHeld ==
    (ParseReturned /\ AllAccepted) =>
        /\ ~parsed.err /\ ~parsed.nilmap
        /\ LET v == SourceFields
           IN  \A k \in 1..Len(source) :
                   ~Excluded(v[k][3]) =>
                       /\ v[k][3] \in DOMAIN parsed.stats
                       /\ parsed.stats[v[k][3]] = VectorOf(v[k])

(* C2 amended: the same for each non-excluded line that is the last line   *)
(* of the source naming its device; the vector has (token count - 3)       *)
(* entries, a token that does not parse gives 0 at its own position only.  *)
C2_LastLineHeld ==
    (ParseReturned /\ AllAccepted) =>
        /\ ~parsed.err /\ ~parsed.nilmap
        /\ LET v == SourceFields
           IN  \A k \in 1..Len(source) :
                   (/\ ~Excluded(v[k][3])
                    /\ \A j \in (k + 1)..Len(source) : v[j][3] # v[k][3]) =>
                       /\ v[k][3] \in DOMAIN parsed.stats
                       /\ Len(parsed.stats[v[k][3]]) = TokenCount(source[k]) - 3
                       /\ parsed.stats[v[k][3]] = VectorOf(v[k])

\* a kept line with a token that does not parse, its other entries in place,
\* after an earlier line of the same device
C2_Witness ==
    /\ ParseReturned /\ AllAccepted /\ Len(source) = 2
    /\ LET v == SourceFields
       IN  /\ v[1][3] = v[2][3] /\ Len(v[1]) # Len(v[2])
           /\ ~Excluded(v[2][3])
           /\ ParseFloat(v[2][4]).err
           /\ parsed.stats[v[2][3]][1] = 0
           /\ parsed.stats[v[2][3]][2] = CounterAt(1)
           /\ Len(parsed.stats[v[2][3]]) = 17

----------------------------------------------------------------------------
\* the first line of a text
FirstLine(text) ==
    LET nl == {i \in 1..Len(text) : text[i] = "\n"}
    IN  IF nl = {} THEN text
        ELSE SubSeq(text, 1, (CHOOSE i \in nl : \A j \in nl : i <= j) - 1)

\* the device a glob match stands for, and whether its two files are valid:
\* readable, not empty, the rotational line exactly "0" or "1", the
\* scheduler line holding a value the scheduler pattern recognises
DirDevice(d) == LastPart(d.devpath)
RotValid(f)   == f.ok /\ FirstLine(f.content) \in {<<"0">>, <<"1">>}
SchedValid(f) == f.ok /\ f.content # <<>>
                 /\ MatchString(schedulerPattern, FirstLine(f.content))
DirValid(d)  == RotValid(d.rotational) /\ SchedValid(d.scheduler)

(* C3: with a non-nil pattern, a name that matches it is no key of the     *)
(* parsed map, no device of the storages list and no device of a sample;   *)
(* a name that does not match is not dropped by the filter.                *)
C3_FilterExact ==
    (pc # "idle" /\ ignore # "nil") =>
        /\ (ParseReturned /\ ~parsed.err) =>
               LET devs == SourceDevices
               IN  DOMAIN parsed.stats =
                       {devs[k] : k \in {j \in 1..Len(source) : ~Matches(devs[j])}}
        /\ (pc = "returned" /\ ret = "nil" /\ ~storages.err) =>
               {storages.list[k].device : k \in 1..Len(storages.list)} =
                   {DirDevice(sysfs.dirs[k]) : k \in {j \in 1..Len(sysfs.dirs) :
                        ~Matches(DirDevice(sysfs.dirs[j])) /\ DirValid(sysfs.dirs[j])}}
        /\ \A dev \in {ch[k].labelValues[1] : k \in 1..Len(ch)} : ~Matches(dev)

\* both inputs name a device that matches and one that does not
C3_Witness ==
    /\ pc = "returned" /\ ret = "nil" /\ ignore # "nil"
    /\ \E j, k \in 1..Len(source) :
           Matches(DeviceOf(source[j])) /\ ~Matches(DeviceOf(source[k]))
    /\ \E j, k \in 1..Len(sysfs.dirs) :
           /\ Matches(DirDevice(sysfs.dirs[j])) /\ DirValid(sysfs.dirs[j])
           /\ ~Matches(DirDevice(sysfs.dirs[k])) /\ DirValid(sysfs.dirs[k])
    /\ \E k \in 1..Len(ch) : IsStorageSample(ch[k])
    /\ \E k \in 1..Len(ch) : IsCounterSample(ch[k])

----------------------------------------------------------------------------
\* the devices whose iteration of the range loop is over
Visited == IF parsed.err \/ parsed.nilmap THEN {} ELSE DOMAIN parsed.stats \ pending

CountsFor(n) ==
    CASE n >= 17 -> [reads |-> 4, writes |-> 4, level |-> 3, discards |-> 4, flush |-> 2]
      [] n >= 15 -> [reads |-> 4, writes |-> 4, level |-> 3, discards |-> 4, flush |-> 0]
      [] n >= 11 -> [reads |-> 4, writes |-> 4, level |-> 3, discards |-> 0, flush |-> 0]
      [] OTHER   -> [reads |-> 0, writes |-> 0, level |-> 0, discards |-> 0, flush |-> 0]

(* C4: the counter samples sent for a device depend on the length of its   *)
(* vector only: 11 gives 4 reads, 4 writes and 3 device-level samples, 15  *)
(* adds 4 discards, 17 adds 2 flush; a vector shorter than 11 gives none.  *)
C4_SampleCounts ==
    /\ \A dev \in Visited :
           LET n    == Len(parsed.stats[dev])
               want == CountsFor(n)
           IN  /\ n \in {11, 15, 17}
               /\ Cardinality(TypedOf(dev, "reads")) = want.reads
               /\ Cardinality(TypedOf(dev, "writes")) = want.writes
               /\ Cardinality(DeviceLevelOf(dev)) = want.level
               /\ Cardinality(TypedOf(dev, "discards")) = want.discards
               /\ Cardinality(TypedOf(dev, "flush")) = want.flush
               /\ Cardinality(SamplesOf(dev)) = n
    /\ \A dev \in pending : SamplesOf(dev) = {}
    /\ \A n \in 0..10 :
           DeviceSamples(NewDiskstatsCollector, sda, [i \in 1..n |-> i]) = <<>>

\* a scrape that returned nil with a vector of 11 and one of 17 entries
C4_Witness ==
    /\ pc = "returned" /\ ret = "nil"
    /\ \E d, e \in Visited : Len(parsed.stats[d]) = 11 /\ Len(parsed.stats[e]) = 17

----------------------------------------------------------------------------
(* C5: when getStorageProperties returns an error, Update still returns    *)
(* nil, the channel keeps exactly the counter samples sent before, and no  *)
(* storage-property sample is sent.                                        *)
C5_PropertyFailureNotFatal ==
    /\ [](storages.err =>
             /\ pc = "returned" /\ ret = "nil"
             /\ \A k \in 1..Len(ch) : ~IsStorageSample(ch[k]))
    /\ [][storages'.err => (ch' = ch /\ ret' = "nil")]_vars

\* the collection failed after counter samples were sent
C5_Witness ==
    /\ pc = "returned" /\ storages.err /\ ret = "nil"
    /\ Cardinality(Visited) = 2
    /\ Len(ch) = 28

----------------------------------------------------------------------------
(* C6: a failure of one device's files removes that device only: the call  *)
(* returns no error and its list holds every non-excluded match with two   *)
(* valid files once, in the glob's order, with its own two values.         *)
C6_PartialFailure ==
    (pc = "returned" /\ ret = "nil" /\ ~sysfs.globErr) =>
        /\ ~storages.err /\ ~storages.nillist
        /\ LET kept == SelectSeq(sysfs.dirs,
                                 LAMBDA d : ~Excluded(DirDevice(d)) /\ DirValid(d))
               list == storages.list
           IN  /\ Len(list) = Len(kept)
               /\ \A k \in 1..Len(list) :
                      /\ list[k].device = DirDevice(kept[k])
                      /\ list[k].rotational = FirstLine(kept[k].rotational.content)
                      /\ list[k].scheduler = getDeviceScheduler(kept[k].scheduler).value
               /\ \A j, k \in 1..Len(list) : j # k => list[j].device # list[k].device

\* a device that fails stands before one that is kept
C6_Witness ==
    /\ pc = "returned" /\ ret = "nil" /\ ~sysfs.globErr
    /\ Len(sysfs.dirs) >= 2
    /\ ~Excluded(DirDevice(sysfs.dirs[1])) /\ ~DirValid(sysfs.dirs[1])
    /\ ~Excluded(DirDevice(sysfs.dirs[2])) /\ DirValid(sysfs.dirs[2])
    /\ Len(storages.list) >= 1
    /\ storages.list[1].device = DirDevice(sysfs.dirs[2])

----------------------------------------------------------------------------
ChDevices  == {ch[k].labelValues[1] : k \in 1..Len(ch)}
StorageIdx == {k \in 1..Len(ch) : IsStorageSample(ch[k])}
CounterIdx == {k \in 1..Len(ch) : IsCounterSample(ch[k])}

Before(A, B) == \A i \in A, j \in B : i < j

(* C8: the samples of one device are sent reads, then writes, then         *)
(* discards, then flush, whatever the order of the devices; every          *)
(* storage-property sample is sent after every counter sample.             *)
C8_EmissionOrder ==
    /\ \A dev \in ChDevices :
           LET r == TypedOf(dev, "reads")
               w == TypedOf(dev, "writes")
               d == TypedOf(dev, "discards")
               f == TypedOf(dev, "flush")
           IN  /\ Before(r, w) /\ Before(r, d) /\ Before(r, f)
               /\ Before(w, d) /\ Before(w, f)
               /\ Before(d, f)
    /\ Before(CounterIdx, StorageIdx)

\* two devices were visited, one with flush samples, and a storage sample sent
C8_Witness ==
    /\ pc = "returned" /\ ret = "nil"
    /\ \E d, e \in Visited :
           /\ d # e
           /\ TypedOf(d, "flush") # {} /\ TypedOf(d, "discards") # {}
           /\ TypedOf(e, "reads") # {}
           /\ Before(SamplesOf(e), SamplesOf(d))
    /\ StorageIdx # {}

----------------------------------------------------------------------------
DeviceLevel(dev, name, value, kind) ==
    \E k \in DeviceLevelOf(dev) :
        /\ ch[k].name = name
        /\ ch[k].value = value
        /\ ch[k].valueType = kind
        /\ ch[k].labelNames = <<"device">>

TypedAreCounters ==
    \A k \in CounterIdx :
        Len(ch[k].labelValues) = 2 =>
            /\ ch[k].valueType = "counter"
            /\ ch[k].labelNames = <<"device", "type">>
            /\ ch[k].labelValues[2] \in {"reads", "writes", "discards", "flush"}

(* C9 as stated: the three device-level samples of a device (from          *)
(* positions 8, 9 and 10 of its vector) are gauges labelled {device}; the  *)
(* samples with a type are counters labelled {device, type}.               *)
C9_DeviceLevelGauges ==
    /\ \A dev \in Visited :
           /\ DeviceLevel(dev, "node_disk_io_now", parsed.stats[dev][9], "gauge")
           /\ DeviceLevel(dev, "node_disk_io_time_seconds_total",
                          parsed.stats[dev][10], "gauge")
           /\ DeviceLevel(dev, "node_disk_io_time_weighted_seconds_total",
                          parsed.stats[dev][11], "gauge")
    /\ TypedAreCounters

(* C9 amended: of the three device-level samples, labelled {device}, the   *)
(* in-flight count (position 8) is a gauge and the two cumulative I/O      *)
(* times (positions 9 and 10) are counters; the samples with a type are    *)
(* counters labelled {device, type}.                                       *)
C9_KindsAndLabels ==
    /\ \A dev \in Visited :
           /\ DeviceLevel(dev, "node_disk_io_now", parsed.stats[dev][9], "gauge")
           /\ DeviceLevel(dev, "node_disk_io_time_seconds_total",
                          parsed.stats[dev][10], "counter")
           /\ DeviceLevel(dev, "node_disk_io_time_weighted_seconds_total",
                          parsed.stats[dev][11], "counter")
           /\ Cardinality(DeviceLevelOf(dev)) = 3
    /\ TypedAreCounters

\* a device with all its samples sent
C9_Witness ==
    /\ pc = "returned" /\ ret = "nil"
    /\ \E dev \in Visited :
           /\ Len(parsed.stats[dev]) = 17
           /\ Cardinality(SamplesOf(dev)) = 17
           /\ parsed.stats[dev][9] = CounterAt(8)

----------------------------------------------------------------------------
(* Scrapes of one device under the default pattern, over the device names  *)
(* the kernel gives block devices.                                         *)

MaxSuffix  == 2     \* digits of a numeric suffix
MaxLetters == 2     \* letters of a disk name

NameDigits  == {"0", "1"}
NameLetters == {"a", "b"}

Strs(alphabet, lo, hi) == UNION {[1..n -> alphabet] : n \in lo..hi}

VirtualClasses == {<<"r", "a", "m">>, <<"l", "o", "o", "p">>, <<"f", "d">>}
DiskClasses    == {<<"h", "d">>, <<"s", "d">>, <<"v", "d">>, <<"x", "v", "d">>}

\* ram0, loop1, fd0: a virtual class and digits
VirtualDevices == {p \o d : p \in VirtualClasses, d \in Strs(NameDigits, 1, MaxSuffix)}
\* sda, sdab: a disk class and letters
WholeDisks     == {c \o l : c \in DiskClasses, l \in Strs(NameLetters, 1, MaxLetters)}
\* sda1, sdab10: a whole disk and a numeric partition suffix
DiskPartitions == {w \o d : w \in WholeDisks, d \in Strs(NameDigits, 1, MaxSuffix)}
\* nvme0n1
NvmeNamespaces == {<<"n", "v", "m", "e">> \o a \o <<"n">> \o b :
                      a \in Strs(NameDigits, 1, MaxSuffix), b \in Strs(NameDigits, 1, MaxSuffix)}
\* nvme0n1p1
NvmePartitions == {n \o <<"p">> \o d : n \in NvmeNamespaces, d \in Strs(NameDigits, 1, MaxSuffix)}
OtherNames     == VirtualClasses \cup {<<"m", "d", "0">>, <<"d", "m", "-", "0">>, <<"s", "r", "0">>}

CandidateNames == VirtualDevices \cup WholeDisks \cup DiskPartitions
                  \cup NvmeNamespaces \cup NvmePartitions \cup OtherNames

InitFilter ==
    /\ ignore = "default"
    /\ \E name \in CandidateNames :
           /\ source = <<MkLine(name, 11, -1)>>
           /\ sysfs = [globErr |-> FALSE, dirs |-> <<Dir(name, GoodRot, GoodSched)>>]
    /\ InitScrape

SpecFilter == InitFilter /\ [][Next]_vars

\* the one device of the scrape is a key of the map and in the storages list
Retained(name) ==
    /\ ParseReturned => name \in DOMAIN parsed.stats
    /\ (pc = "returned" /\ ret = "nil") =>
           (Len(storages.list) = 1 /\ storages.list[1].device = name)

\* the one device of the scrape is in neither
Dropped(name) ==
    /\ ParseReturned => name \notin DOMAIN parsed.stats
    /\ (pc = "returned" /\ ret = "nil") => storages.list = <<>>

(* C10: the default pattern excludes every ram, loop and fd device, every  *)
(* partition of an hd, sd, vd or xvd disk (of one or more letters) and     *)
(* every NVMe namespace partition, and retains every whole disk and every  *)
(* NVMe namespace.                                                         *)
C10_DefaultPattern ==
    (pc # "idle" /\ ret # "error") =>
        LET name == DirDevice(sysfs.dirs[1])
        IN  /\ name \in VirtualDevices \cup DiskPartitions \cup NvmePartitions
                   => Dropped(name)
            /\ name \in WholeDisks \cup NvmeNamespaces => Retained(name)

----------------------------------------------------------------------------
(* Scrapes of device sda over the lines its scheduler file can hold:       *)
(* distinct scheduler names, at most one of them in brackets.              *)

MaxWords == 3       \* scheduler names on the line

SchedulerNames == {<<"n", "o", "o", "p">>, <<"n", "o", "n", "e">>, <<"k", "y", "b", "e", "r">>, <<"m", "q", "-", "d", "e", "a", "d", "l", "i", "n", "e">>, <<"b", "f", "q">>}

RECURSIVE JoinWords(_)
JoinWords(ws) ==
    IF ws = <<>> THEN <<>>
    ELSE IF Len(ws) = 1 THEN Head(ws)
    ELSE Head(ws) \o <<" ">> \o JoinWords(Tail(ws))

SchedulerLines ==
    UNION {{JoinWords([k \in 1..n |-> IF k = b THEN <<"[">> \o w[k] \o <<"]">> ELSE w[k]]) :
                w \in {f \in [1..n -> SchedulerNames] :
                          \A i, j \in 1..n : i # j => f[i] # f[j]},
                b \in 0..n}
           : n \in 0..MaxWords}

InitScheduler ==
    /\ ignore = "default"
    /\ source = <<MkLine(sda, 11, -1)>>
    /\ \E line \in SchedulerLines :
           sysfs = [globErr |-> FALSE,
                    dirs |-> <<Dir(sda, GoodRot, File(line \o <<"\n">>))>>]
    /\ InitScrape

SpecScheduler == InitScheduler /\ [][Next]_vars

Bracketed(tok) == Len(tok) >= 2 /\ tok[1] = "[" /\ tok[Len(tok)] = "]"

Contains(text, word) ==
    \E i \in 1..(Len(text) - Len(word) + 1) : SubSeq(text, i, i + Len(word) - 1) = word

(* C7: the scheduler reported for a device is the bracketed token of its   *)
(* scheduler line without the brackets, wherever it stands on the line;    *)
(* "none" when there is no bracketed token and the line contains none; and *)
(* the device is skipped when the line has neither.                        *)
C7_ActiveScheduler ==
    (pc = "returned" /\ ret = "nil") =>
        LET line == FirstLine(sysfs.dirs[1].scheduler.content)
            toks == Fields(line)
            br   == {k \in 1..Len(toks) : Bracketed(toks[k])}
        IN  IF br # {}
            THEN /\ Len(storages.list) = 1
                 /\ \E k \in br :
                        storages.list[1].scheduler = SubSeq(toks[k], 2, Len(toks[k]) - 1)
            ELSE IF Contains(line, <<"n", "o", "n", "e">>)
            THEN /\ Len(storages.list) = 1
                 /\ storages.list[1].scheduler = <<"n", "o", "n", "e">>
            ELSE storages.list = <<>>

=============================================================================
